---- MODULE Spec2Model ----
(***************************************************************************)
(* graph_service: the ingest and retrieve routers of the Graphiti HTTP     *)
(* facade.  Three parts are modelled, each from its source:                *)
(*   - AsyncWorker (routers/ingest.py 32-61): the queue, the consumer      *)
(*     task, start/stop and the lifespan that calls them;                  *)
(*   - verify_token and the route handlers of both routers, as requests    *)
(*     interleaved on one asyncio event loop;                              *)
(*   - the pure transformations (dividir_em_partes, f-string rendering).   *)
(* Python strings are sequences of one-character strings.  asyncio is      *)
(* cooperative: a coroutine runs without interruption from one await that  *)
(* suspends to the next, so every action below is one such run.            *)
(***************************************************************************)
EXTENDS Integers, Sequences, FiniteSets, TLC

VARIABLES
    \* ---- AsyncWorker (module-global async_worker) ----
    queue,        \* self.queue: FIFO of jobs not yet taken by the consumer
    task,         \* self.task: state of the consumer task
    must_cancel,  \* task.cancel() was requested and is not yet delivered
    current,      \* the job the consumer is awaiting (NoJob when none)
    submitted,    \* history: job ids in the order they were put on the queue
    started,      \* history: job ids in the order the consumer began them
    finished,     \* history: [id, how] in the order jobs ended
    stop_pc,      \* position of AsyncWorker.stop()
    stop_saw,     \* history: task state and queue when stop() was invoked
    \* ---- HTTP requests ----
    api_token,    \* module-global api_token = os.getenv("API_TOKEN")
    req,          \* request id -> state of that request's coroutine
    engine_calls, \* history: add_episode calls in the order they began
    ingested,     \* the engine's episodes: add_episode calls that returned
    \* ---- pure-function harness ----
    fn_in,        \* the inputs drawn for the function under check
    fn_out        \* its result, once applied

worker_vars == <<queue, task, must_cancel, current, submitted, started, finished,
                 stop_pc, stop_saw>>
http_vars   == <<api_token, req, engine_calls, ingested>>
fn_vars     == <<fn_in, fn_out>>
vars        == <<worker_vars, http_vars, fn_vars>>

----------------------------------------------------------------------------
\* Bounds of the model.
MaxJobs == 3        \* jobs put on the worker queue in one run
MaxReq == 2         \* HTTP requests in one run of the service
MaxTokenLen == 3    \* characters after "Bearer " in a drawn Authorization header
MaxLen == 4         \* length of a text drawn for dividir_em_partes
MaxLimite == 4      \* largest chunk size drawn for dividir_em_partes
MaxMsgs == 2        \* messages of a conversation drawn for add_conversation

\* Python's None, kept comparable with strings (sequences of characters).
None == <<"None">>

----------------------------------------------------------------------------
\* ======================= AsyncWorker ====================================

NoJob == [id |-> 0, raises |-> FALSE]

\* A job is a zero-argument coroutine function.  It awaits the graph engine
\* once and then either returns or raises an ordinary Exception; it does not
\* catch the CancelledError thrown into it when its task is cancelled.
Jobs == [id : 1..MaxJobs, raises : BOOLEAN]

\* asyncio.Queue.get_nowait on a FIFO queue: the item handed out.
QueueGetLIFO(q) == q[Len(q)]
QueueGet(q) == Head(q)

\* The queue after QueueGet.
QueueRest(q) == Tail(q)

\* `await self.queue.get()` resumed after the getter future was resolved by a
\* put: Task.cancel() found the future already done and set _must_cancel, so
\* the next step throws CancelledError at the await instead of returning.
GetterIgnoresCancel(cancel) == FALSE
GetterCancelled(cancel) == cancel

\* `except asyncio.CancelledError: break` is the only handler of the loop:
\* TRUE when an exception of this kind is caught by it.
worker_catches(kind) == kind = "CancelledError"

WorkerInit ==
    /\ queue = <<>>
    /\ task = "None"
    /\ must_cancel = FALSE
    /\ current = NoJob
    /\ submitted = <<>>
    /\ started = <<>>
    /\ finished = <<>>
    /\ stop_pc = "not_called"
    /\ stop_saw = [task |-> "None", queue |-> <<>>]

\* lifespan, up to its yield: `await async_worker.start()` creates the consumer
\* task; the event loop runs it before anything else that is scheduled later,
\* so it reaches `await self.queue.get()` on the empty queue and suspends.
AsyncWorker_start ==
    /\ task = "None"
    /\ stop_pc = "not_called"
    /\ task' = "waiting_get"
    /\ UNCHANGED <<queue, must_cancel, current, submitted, started, finished,
                   stop_pc, stop_saw>>
    /\ UNCHANGED <<http_vars, fn_vars>>

\* A client of the worker: `await async_worker.queue.put(job)`.  The queue is
\* unbounded, so put never suspends; it resolves the getter of a consumer
\* suspended in get(), which makes the consumer ready to run.
QueuePut ==
    /\ Len(submitted) < MaxJobs
    /\ \E job \in Jobs :
         /\ job.id = Len(submitted) + 1
         /\ queue' = Append(queue, job)
         /\ submitted' = Append(submitted, job.id)
    /\ task' = IF task = "waiting_get" /\ ~must_cancel THEN "woken" ELSE task
    /\ UNCHANGED <<must_cancel, current, started, finished, stop_pc, stop_saw>>
    /\ UNCHANGED <<http_vars, fn_vars>>

\* The consumer after `job = await self.queue.get()` with a job at hand:
\* `await job()` runs the job up to its await of the engine.
BeginJob(q) ==
    /\ current' = QueueGet(q)
    /\ queue' = QueueRest(q)
    /\ started' = Append(started, QueueGet(q).id)
    /\ task' = "in_job"

\* The consumer leaves the loop by `break`: the coroutine returns.
WorkerBreak ==
    /\ task' = "finished"
    /\ must_cancel' = FALSE

\* worker(), resumed in `await self.queue.get()`.
worker_resume_get ==
    /\ task \in {"waiting_get", "woken"}
    /\ \/ /\ task = "woken"
          /\ ~GetterCancelled(must_cancel)
          /\ BeginJob(queue)
          /\ UNCHANGED <<must_cancel, finished>>
       \/ /\ must_cancel
          /\ GetterCancelled(must_cancel)
          /\ worker_catches("CancelledError")
          /\ WorkerBreak
          /\ UNCHANGED <<queue, current, started, finished>>
    /\ UNCHANGED <<submitted, stop_pc, stop_saw>>
    /\ UNCHANGED <<http_vars, fn_vars>>

\* worker(), resumed in `await job()`: the job's await of the engine ends.
worker_resume_job ==
    /\ task = "in_job"
    /\ LET how == IF must_cancel THEN "CancelledError"
                  ELSE IF current.raises THEN "Exception" ELSE "ok"
       IN
       /\ finished' = Append(finished, [id |-> current.id, how |-> how])
       /\ IF how = "ok"
          THEN \* back to `await self.queue.get()`: no suspension when a job waits
               IF queue = <<>>
               THEN /\ task' = "waiting_get"
                    /\ current' = NoJob
                    /\ UNCHANGED <<queue, started, must_cancel>>
               ELSE /\ BeginJob(queue)
                    /\ UNCHANGED must_cancel
          ELSE IF worker_catches(how)
          THEN /\ WorkerBreak
               /\ current' = NoJob
               /\ UNCHANGED <<queue, started>>
          ELSE \* the exception leaves worker(): the task ends with it
               /\ task' = "exception"
               /\ current' = NoJob
               /\ UNCHANGED <<queue, started, must_cancel>>
    /\ UNCHANGED <<submitted, stop_pc, stop_saw>>
    /\ UNCHANGED <<http_vars, fn_vars>>

\* stop(), up to `await self.task` (lifespan after its yield).
AsyncWorker_stop ==
    /\ stop_pc = "not_called"
    /\ task # "None"
    /\ stop_saw' = [task |-> task, queue |-> queue]
    /\ IF task = "exception"
       THEN \* cancel() of a done task does nothing; awaiting it re-raises
            /\ stop_pc' = "raised"
            /\ UNCHANGED must_cancel
       ELSE /\ stop_pc' = "awaiting_task"
            /\ must_cancel' = TRUE
    /\ UNCHANGED <<queue, task, current, submitted, started, finished>>
    /\ UNCHANGED <<http_vars, fn_vars>>

\* stop(), resumed once the task is done: the drain loop empties the queue.
AsyncWorker_stop_resume ==
    /\ stop_pc = "awaiting_task"
    /\ task \in {"finished", "exception"}
    /\ IF task = "finished"
       THEN /\ queue' = <<>>
            /\ stop_pc' = "returned"
       ELSE /\ stop_pc' = "raised"
            /\ UNCHANGED queue
    /\ UNCHANGED <<task, must_cancel, current, submitted, started, finished, stop_saw>>
    /\ UNCHANGED <<http_vars, fn_vars>>

----------------------------------------------------------------------------
\* ======================= strings ========================================

\* str.startswith(prefix)
StartsWith(s, prefix) ==
    Len(s) >= Len(prefix) /\ SubSeq(s, 1, Len(prefix)) = prefix

\* str.split(sep) for a one-character sep: every occurrence of sep ends a
\* field, so consecutive separators give empty fields.
RECURSIVE SplitFrom(_, _, _)
SplitFrom(s, sep, field) ==
    IF s = <<>> THEN <<field>>
    ELSE IF Head(s) = sep THEN <<field>> \o SplitFrom(Tail(s), sep, <<>>)
    ELSE SplitFrom(Tail(s), sep, Append(field, Head(s)))
Split(s, sep) == SplitFrom(s, sep, <<>>)

\* str(n) of a non-negative int, as f-strings render it.
Digits == <<"0", "1", "2", "3", "4", "5", "6", "7", "8", "9">>
RECURSIVE Decimal(_)
Decimal(n) ==
    IF n < 10 THEN <<Digits[n + 1]>>
    ELSE Decimal(n \div 10) \o <<Digits[(n % 10) + 1]>>

\* Python truthiness of an Optional[str].
Falsy(s) == s = None \/ s = <<>>

----------------------------------------------------------------------------
\* ======================= Auth Gate ======================================

BearerPrefix == <<"B", "e", "a", "r", "e", "r", " ">>

\* verify_token of routers/ingest.py: the HTTP status it raises, 0 when it
\* returns and lets the route go on.  authorization.split(" ")[1] is the
\* second field, index 2 here.
ingest_verify_token(authorization, token_cfg) ==
    IF Falsy(authorization) \/ ~StartsWith(authorization, BearerPrefix) THEN 401
    ELSE IF Split(authorization, " ")[2] # token_cfg THEN 403
    ELSE 0

\* verify_token of routers/retrieve.py (the same code, its own api_token).
retrieve_verify_token(authorization, token_cfg) ==
    IF Falsy(authorization) \/ ~StartsWith(authorization, BearerPrefix) THEN 401
    ELSE IF Split(authorization, " ")[2] # token_cfg THEN 403
    ELSE 0

IngestRoutes == {"POST /conversation", "POST /text", "POST /document",
                 "DELETE /group/{group_id}", "POST /clear"}
RetrieveRoutes == {"POST /retrieve/search", "POST /retrieve/search/centered",
                   "POST /retrieve/search/advanced", "POST /retrieve/search/advanced-v2",
                   "GET /retrieve/episodes/{group_id}"}
Routes == IngestRoutes \cup RetrieveRoutes
EpisodeRoutes == {"POST /conversation", "POST /text", "POST /document"}

\* dependencies=[Depends(verify_token)] of the router the route belongs to.
RouterDependency(route, authorization, token_cfg) ==
    IF route \in IngestRoutes THEN ingest_verify_token(authorization, token_cfg)
    ELSE retrieve_verify_token(authorization, token_cfg)

----------------------------------------------------------------------------
\* ======================= Request Transformers ===========================

\* The default of dividir_em_partes(texto, limite=5000).
DefaultLimite == 5000

\* range(0, len(texto), limite): the 0-based start offsets.
ChunkStarts(len, limite) == {i \in 0..(len - 1) : i % limite = 0}

\* texto[i:i + limite] (0-based i, end clipped to len(texto)).
SliceShort(texto, i, limite) ==
    SubSeq(texto, i + 1, IF i + limite - 1 < Len(texto) THEN i + limite - 1 ELSE Len(texto))
Slice(texto, i, limite) ==
    SubSeq(texto, i + 1, IF i + limite < Len(texto) THEN i + limite ELSE Len(texto))

\* [texto[i:i + limite] for i in range(0, len(texto), limite)]
dividir_em_partes(texto, limite) ==
    LET n == Cardinality(ChunkStarts(Len(texto), limite))
    IN  [k \in 1..n |-> Slice(texto, (k - 1) * limite, limite)]

ParteSep == <<" ", "-", " ", "P", "a", "r", "t", "e", " ">>

\* f'{request.name} - Parte {i + 1}' for the 0-based enumerate index i.
PartNameZeroBased(name, i) == name \o ParteSep \o Decimal(i)
PartName(name, i) == name \o ParteSep \o Decimal(i + 1)

\* datetime.isoformat() of the timestamps the model draws.
Timestamps == {1, 2}
isoformat(t) ==
    IF t = 1 THEN <<"2", "0", "2", "4", "-", "0", "1", "-", "0", "1", "T", "0", "0", ":", "0", "0", ":", "0", "0">>
    ELSE <<"2", "0", "2", "4", "-", "0", "1", "-", "0", "2", "T", "1", "0", ":", "3", "0", ":", "0", "0", "+", "0", "0", ":", "0", "0">>

\* f"{m.role}({m.role_type}): {m.content} (Timestamp: {m.timestamp.isoformat()})"
\* (an absent role renders as str(None)).
MessageLine(m) ==
    (IF m.role = None THEN <<"N", "o", "n", "e">> ELSE m.role)
        \o <<"(">> \o m.role_type \o <<")", ":", " ">> \o m.content
        \o <<" ", "(", "T", "i", "m", "e", "s", "t", "a", "m", "p", ":", " ">> \o isoformat(m.timestamp) \o <<")">>

\* "\n".join(lines)
RECURSIVE JoinLines(_)
JoinLines(lines) ==
    IF lines = <<>> THEN <<>>
    ELSE IF Len(lines) = 1 THEN lines[1]
    ELSE lines[1] \o <<"\n">> \o JoinLines(Tail(lines))

conversation_text(messages) ==
    JoinLines([k \in 1..Len(messages) |-> MessageLine(messages[k])])

----------------------------------------------------------------------------
\* ======================= Route Handlers =================================

\* One awaited call on the graph engine client.
EngineCall(op, args) == [op |-> op, args |-> args]

AddEpisode(name, body, source, description, reference_time, group_id) ==
    EngineCall("add_episode",
               [name |-> name, episode_body |-> body, source |-> source,
                source_description |-> description,
                reference_time |-> reference_time, group_id |-> group_id])

\* add_text_episode: the engine calls it awaits, in order.
add_text_episode(p) ==
    <<AddEpisode(p.name, p.content, "text", p.source_description,
                 p.reference_time, p.group_id)>>

\* add_conversation
add_conversation(p) ==
    <<AddEpisode(p.name, conversation_text(p.messages), "message",
                 p.source_description, p.reference_time, p.group_id)>>

\* add_document: one call per element of partes, in enumerate order.
add_document(p) ==
    LET partes == dividir_em_partes(p.content, DefaultLimite)
    IN  [k \in 1..Len(partes) |->
            AddEpisode(PartName(p.name, k - 1), partes[k], "text",
                       p.source_description, p.reference_time, p.group_id)]

\* getattr(search_config_recipes, recipe): the configuration of that name,
\* with the limit the recipe was defined with.
SearchConfig(recipe) == [recipe |-> recipe, limit |-> "of the recipe"]

\* The engine calls of a route's handler, in the order it awaits them.
HandlerCalls(route, p) ==
    CASE route = "POST /text" -> add_text_episode(p)
      [] route = "POST /conversation" -> add_conversation(p)
      [] route = "POST /document" -> add_document(p)
      [] route = "DELETE /group/{group_id}" -> <<EngineCall("delete_group", p)>>
      [] route = "POST /clear" ->
            <<EngineCall("clear_data", p), EngineCall("build_indices_and_constraints", p)>>
      [] route = "POST /retrieve/search" ->
            <<EngineCall("search", [group_ids |-> p.group_ids, query |-> p.query,
                                    num_results |-> p.max_facts])>>
      [] route = "POST /retrieve/search/centered" ->
            <<EngineCall("search", [query |-> p.query, group_ids |-> p.group_ids,
                                    num_results |-> p.max_facts,
                                    center_node_uuid |-> p.center_node_uuid])>>
      [] route = "POST /retrieve/search/advanced" ->
            <<EngineCall("_search", [query |-> p.query, group_ids |-> p.group_ids,
                                     config |-> SearchConfig(p.recipe)])>>
      [] route = "POST /retrieve/search/advanced-v2" ->
            <<EngineCall("_search", [query |-> p.query, group_ids |-> p.group_ids,
                                     config |-> [SearchConfig(p.recipe) EXCEPT
                                                    !.limit = p.max_facts]])>>
      [] route = "GET /retrieve/episodes/{group_id}" -> <<EngineCall("retrieve_episodes", p)>>

\* The body a handler returns when all its calls have succeeded: Result.message
\* as the pieces of its (f-)string, in order.
HandlerResult(route, p, calls) ==
    CASE route = "POST /text" -> <<"Text episode added successfully">>
      [] route = "POST /conversation" -> <<"Conversation episode added successfully">>
      [] route = "POST /document" ->
            <<Decimal(Len(calls)), " partes do documento adicionadas com sucesso ao grupo ",
              p.group_id, ".">>
      [] route = "DELETE /group/{group_id}" -> <<"Group deleted">>
      [] route = "POST /clear" -> <<"Graph cleared">>
      [] OTHER -> <<"results">>

\* status_code of the route decorator.
SuccessStatus(route) == IF route \in EpisodeRoutes THEN 201 ELSE 200

NoRequest == [pc |-> "idle", route |-> "", authorization |-> None, payload |-> <<>>,
              status |-> 0, calls |-> <<>>, i |-> 0, message |-> <<>>]

\* A request arrives: route, Authorization header and payload are the input.
Receive(r, routes, headers, payloads) ==
    /\ req[r].pc = "idle"
    /\ \E route \in routes, h \in headers :
         \E p \in payloads[route] :
            req' = [req EXCEPT ![r] = [NoRequest EXCEPT !.pc = "auth", !.route = route,
                                       !.authorization = h, !.payload = p]]
    /\ UNCHANGED <<api_token, engine_calls, ingested>>

\* recipe: Literal[...] of AdvancedSearchRequest and AdvancedSearchV2Request.
AnyConfiguredRecipe(route) ==
    {"EDGE_HYBRID_SEARCH_RRF", "EDGE_HYBRID_SEARCH_MMR", "EDGE_HYBRID_SEARCH_NODE_DISTANCE",
     "EDGE_HYBRID_SEARCH_EPISODE_MENTIONS", "EDGE_HYBRID_SEARCH_CROSS_ENCODER",
     "COMBINED_HYBRID_SEARCH_RRF", "COMBINED_HYBRID_SEARCH_MMR",
     "COMBINED_HYBRID_SEARCH_CROSS_ENCODER"}
RecipeLiteral(route) ==
    IF route = "POST /retrieve/search/advanced"
    THEN {"EDGE_HYBRID_SEARCH_RRF", "EDGE_HYBRID_SEARCH_MMR",
          "EDGE_HYBRID_SEARCH_NODE_DISTANCE", "EDGE_HYBRID_SEARCH_EPISODE_MENTIONS",
          "EDGE_HYBRID_SEARCH_CROSS_ENCODER"}
    ELSE {"COMBINED_HYBRID_SEARCH_RRF", "COMBINED_HYBRID_SEARCH_MMR",
          "COMBINED_HYBRID_SEARCH_CROSS_ENCODER"}

SearchRoutes == {"POST /retrieve/search", "POST /retrieve/search/centered",
                 "POST /retrieve/search/advanced", "POST /retrieve/search/advanced-v2"}
RecipeRoutes == {"POST /retrieve/search/advanced", "POST /retrieve/search/advanced-v2"}

\* Validation of the body against the route's request model.  A required
\* str field (Field(...) or no default) must be given, None standing for a
\* missing or null value; no field carries a length or range constraint, so
\* any str and any int pass; recipe must be one of its literals.
ValidBody(route, p) ==
    CASE route \in EpisodeRoutes -> p.group_id # None /\ p.name # None
      [] route \in SearchRoutes ->
            /\ p.query # None
            /\ p.max_facts \in Int
            /\ route \in RecipeRoutes => p.recipe \in RecipeLiteral(route)
      [] OTHER -> TRUE

\* What FastAPI resolves before it calls the handler: the router dependency
\* first, whose HTTPException is the response, then the request model, whose
\* failure is answered 422.  0 when the handler is to be called.
BeforeHandler(route, authorization, token_cfg, p) ==
    LET st == RouterDependency(route, authorization, token_cfg) IN
    IF st # 0 THEN st
    ELSE IF ~ValidBody(route, p) THEN 422
    ELSE 0

\* The router dependency and the validation of the body run before the
\* handler; the error either raises is the response.
Authenticate(r) ==
    /\ req[r].pc = "auth"
    /\ LET st == BeforeHandler(req[r].route, req[r].authorization, api_token,
                               req[r].payload) IN
       req' = [req EXCEPT ![r].pc = IF st = 0 THEN "handler" ELSE "done",
                          ![r].status = st]
    /\ UNCHANGED <<api_token, engine_calls, ingested>>

\* The handler body, up to its first await of the engine client (or to its
\* return when it awaits nothing).
HandlerEnter(r) ==
    /\ req[r].pc = "handler"
    /\ LET calls == HandlerCalls(req[r].route, req[r].payload) IN
       IF calls = <<>>
       THEN /\ req' = [req EXCEPT ![r].pc = "done",
                                  ![r].status = SuccessStatus(req[r].route),
                                  ![r].message = HandlerResult(req[r].route, req[r].payload, calls)]
            /\ UNCHANGED engine_calls
       ELSE /\ req' = [req EXCEPT ![r].pc = "in_engine", ![r].calls = calls, ![r].i = 1]
            /\ engine_calls' = Append(engine_calls, [req |-> r, call |-> calls[1]])
    /\ UNCHANGED <<api_token, ingested>>

\* The handler of request r goes on after its awaited call: to its next
\* await, or to its return when no call is left.
HandlerGoesOn(r) ==
    IF req[r].i < Len(req[r].calls)
    THEN /\ req' = [req EXCEPT ![r].i = @ + 1]
         /\ engine_calls' =
               Append(engine_calls, [req |-> r, call |-> req[r].calls[req[r].i + 1]])
    ELSE /\ req' = [req EXCEPT ![r].pc = "done",
                               ![r].status = SuccessStatus(req[r].route),
                               ![r].message = HandlerResult(req[r].route, req[r].payload,
                                                            req[r].calls)]
         /\ UNCHANGED engine_calls

\* The awaited call raised: no handler has a try, so the exception leaves the
\* handler and the request ends with a server error.
HandlerSwallowsError(r) == HandlerGoesOn(r)
HandlerRaises(r) ==
    /\ req' = [req EXCEPT ![r].pc = "done", ![r].status = 500]
    /\ UNCHANGED engine_calls

\* The awaited engine call of request r ends: by returning, after which the
\* handler goes on to its next await or to its return, or by raising, which
\* ends the request with a server error.  An add_episode that returned has
\* put its episode into the graph.
EngineReturn(r) ==
    /\ req[r].pc = "in_engine"
    /\ \E ok \in BOOLEAN :
         IF ~ok
         THEN /\ HandlerRaises(r)
              /\ UNCHANGED ingested
         ELSE /\ HandlerGoesOn(r)
              /\ ingested' =
                    IF req[r].calls[req[r].i].op = "add_episode"
                    THEN Append(ingested, [req |-> r, call |-> req[r].calls[req[r].i]])
                    ELSE ingested
    /\ UNCHANGED api_token

\* The parts of the state the worker specification leaves alone.
HttpIdle == api_token = None /\ req = <<>> /\ engine_calls = <<>> /\ ingested = <<>>
FnIdle == fn_in = <<>> /\ fn_out = <<>>

\* AsyncWorker with a client that puts jobs on its queue.
InitWorker == WorkerInit /\ HttpIdle /\ FnIdle
NextWorker ==
    \/ AsyncWorker_start
    \/ QueuePut
    \/ worker_resume_get
    \/ worker_resume_job
    \/ AsyncWorker_stop
    \/ AsyncWorker_stop_resume
SpecWorker == InitWorker /\ [][NextWorker]_vars

Range(s) == {s[i] : i \in 1..Len(s)}
Alive == {"waiting_get", "woken", "in_job"}

\* C3: the k-th job put on the queue is the k-th job to begin, a job begins
\* only after the one before it has ended, and at most one job is in
\* execution at any time.
C3_StrictSubmissionOrder ==
    /\ Len(started) <= Len(submitted)
    /\ \A k \in 1..Len(started) : started[k] = submitted[k]
    /\ Len(finished) <= Len(started)
    /\ Len(started) <= Len(finished) + 1
    /\ \A k \in 1..Len(finished) : finished[k].id = started[k]
    /\ Cardinality(Range(started) \ {finished[k].id : k \in 1..Len(finished)}) <= 1
    /\ (current # NoJob) <=> (Len(started) = Len(finished) + 1)

\* Witness of C3: every submitted job has run, one after the other, to its end.
C3_Witness ==
    /\ Len(submitted) >= 3
    /\ Len(started) = Len(submitted)
    /\ Len(finished) = Len(submitted)

\* C4: once stop() has been invoked no job begins, and no job that was in
\* the queue at that moment is ever run, the one a woken consumer was about
\* to dequeue included.
C4_NoJobBeginsAfterStop ==
    [][ /\ (stop_pc # "not_called" => started' = started)
        /\ (stop_pc' # "not_called" =>
              \A i \in 1..Len(stop_saw'.queue) :
                  stop_saw'.queue[i].id \notin Range(started')) ]_vars

\* Witness of C4: stop() was invoked while the consumer had been woken for a
\* queued job and had not yet dequeued it; stop() has returned and the job
\* was never begun.
C4_Witness ==
    /\ stop_pc = "returned"
    /\ stop_saw.task = "woken"
    /\ stop_saw.queue # <<>>
    /\ Len(started) < Len(submitted)

\* C5 as claimed: when a job has raised and stop() was not called, the
\* consumer loop is still alive to take the jobs submitted after it.
C5_LoopSurvivesJobFailure ==
    (stop_pc = "not_called" /\ \E k \in 1..Len(finished) : finished[k].how = "Exception")
        => task \in Alive

\* C6 as claimed: stop() on a started worker never ends by raising, and when
\* it has returned the consumer task has terminated by cancellation and the
\* queue was emptied, whatever had been queued, was executing or had failed.
C6_StopAlwaysCompletes ==
    /\ stop_pc # "raised"
    /\ stop_pc = "returned" => task = "finished"

----------------------------------------------------------------------------
\* ======================= inputs =========================================

\* All strings over alphabet of length at most n.
RECURSIVE StringsUpTo(_, _)
StringsUpTo(alphabet, n) ==
    IF n = 0 THEN {<<>>}
    ELSE LET shorter == StringsUpTo(alphabet, n - 1)
         IN  shorter \cup {Append(w, c) : w \in shorter, c \in alphabet}

\* A text of length len whose characters tell neighbouring positions apart.
Content(len) == [i \in 1..len |-> <<"a", "b", "c">>[(i % 3) + 1]]

Secret == <<"s">>
ValidHeader == BearerPrefix \o Secret

TextPayload ==
    [name |-> <<"n", "1">>, group_id |-> <<"g", "1">>, content |-> <<"h", "e", "l", "l", "o">>,
     source_description |-> "Text content", reference_time |-> 1]
Message1 ==
    [content |-> <<"h", "i">>, role_type |-> <<"u", "s", "e", "r">>, role |-> <<"b", "o", "b">>,
     timestamp |-> 1]
Message2 ==
    [content |-> <<"y", "o">>, role_type |-> <<"a", "s", "s", "i", "s", "t", "a", "n", "t">>, role |-> None,
     timestamp |-> 2]
ConversationPayload ==
    [name |-> <<"n", "1">>, group_id |-> <<"g", "1">>, messages |-> <<Message1, Message2>>,
     source_description |-> "Conversation", reference_time |-> 1]
DocumentPayload(len) ==
    [name |-> <<"d">>, group_id |-> <<"g", "1">>, content |-> Content(len),
     source_description |-> "Document ingestion", reference_time |-> 1]

SearchPayload(recipe) ==
    [query |-> <<"q">>, group_ids |-> None, max_facts |-> 10,
     center_node_uuid |-> <<"u">>, recipe |-> recipe]

\* One well-formed payload per route; documents of no, one and two parts.
ServicePayloads ==
    [route \in Routes |->
        CASE route = "POST /text" -> {TextPayload}
          [] route = "POST /conversation" -> {ConversationPayload}
          [] route = "POST /document" ->
                {DocumentPayload(len) : len \in {0, 2, DefaultLimite + 1}}
          [] route = "POST /retrieve/search/advanced" ->
                {SearchPayload("EDGE_HYBRID_SEARCH_RRF")}
          [] route \in SearchRoutes -> {SearchPayload("COMBINED_HYBRID_SEARCH_RRF")}
          [] OTHER -> {[group_id |-> <<"g", "1">>]}]

----------------------------------------------------------------------------
\* ======================= the service ====================================

HttpInit(tokens) ==
    /\ api_token \in tokens
    /\ req = [r \in 1..MaxReq |-> NoRequest]
    /\ engine_calls = <<>>
    /\ ingested = <<>>

\* The application serves requests between lifespan's start() and stop().
Serving == task \in Alive /\ stop_pc = "not_called"

ServiceRoutes == IngestRoutes \cup {"POST /retrieve/search"}
ServiceHeaders == {None, ValidHeader, BearerPrefix \o <<"x">>}

ServiceReceive ==
    /\ Serving
    /\ \E r \in 1..MaxReq : Receive(r, ServiceRoutes, ServiceHeaders, ServicePayloads)
    /\ UNCHANGED <<worker_vars, fn_vars>>
ServiceAuthenticate ==
    (\E r \in 1..MaxReq : Authenticate(r)) /\ UNCHANGED <<worker_vars, fn_vars>>
ServiceHandlerEnter ==
    (\E r \in 1..MaxReq : HandlerEnter(r)) /\ UNCHANGED <<worker_vars, fn_vars>>
ServiceEngineReturn ==
    (\E r \in 1..MaxReq : EngineReturn(r)) /\ UNCHANGED <<worker_vars, fn_vars>>

\* The service as it runs: lifespan starts the worker, requests are handled
\* concurrently, lifespan stops the worker.  No handler touches async_worker.
Init == WorkerInit /\ HttpInit({Secret}) /\ FnIdle
Next ==
    \/ AsyncWorker_start
    \/ ServiceReceive
    \/ ServiceAuthenticate
    \/ ServiceHandlerEnter
    \/ ServiceEngineReturn
    \/ AsyncWorker_stop
    \/ worker_resume_get
    \/ AsyncWorker_stop_resume
Spec == Init /\ [][Next]_vars

\* The add_episode calls that have begun and not yet ended.
AddEpisodeInFlight ==
    {r \in 1..MaxReq : /\ req[r].pc = "in_engine"
                       /\ req[r].calls[req[r].i].op = "add_episode"}

\* The episodes of the requests that were answered with their success Result.
EpisodesAnswered(r) ==
    IF req[r].route \in EpisodeRoutes /\ req[r].pc = "done" /\ req[r].status = 201
    THEN Len(req[r].calls) ELSE 0
RECURSIVE SumEpisodes(_)
SumEpisodes(n) == IF n = 0 THEN 0 ELSE EpisodesAnswered(n) + SumEpisodes(n - 1)

\* C1 as claimed: at most one add_episode call is executing against the
\* graph engine at any instant.
C1_OneWriteAtATime == Cardinality(AddEpisodeInFlight) <= 1

\* C2 as claimed: no handler is ever inside add_episode, and every episode of
\* a request answered with its success Result was put on the worker queue.
C2_HandlersOnlyEnqueue ==
    /\ AddEpisodeInFlight = {}
    /\ Len(submitted) >= SumEpisodes(MaxReq)

----------------------------------------------------------------------------
\* ======================= the Auth Gate alone ============================

\* Values of API_TOKEN: unset, or a secret without spaces.
ConfiguredTokens == {None, <<"s">>, <<"s", "x">>}

\* Authorization headers: absent, empty, of another scheme, the bare word
\* Bearer, and "Bearer " followed by every short text over s, x and space.
\* An HTTP field value reaches the application without trailing whitespace,
\* so no drawn header ends in a space.
AuthHeaders ==
    {None, <<>>, <<"s">>, <<"B", "e", "a", "r", "e", "r">>, <<"B", "a", "s", "i", "c", " ", "s">>}
        \cup {BearerPrefix \o rest : rest \in
                {w \in StringsUpTo({"s", "x", " "}, MaxTokenLen) :
                    w # <<>> /\ w[Len(w)] # " "}}

AuthReceive ==
    Receive(1, Routes, AuthHeaders, ServicePayloads) /\ UNCHANGED <<worker_vars, fn_vars>>
AuthAuthenticate == Authenticate(1) /\ UNCHANGED <<worker_vars, fn_vars>>
AuthHandlerEnter == HandlerEnter(1) /\ UNCHANGED <<worker_vars, fn_vars>>
AuthEngineReturn == EngineReturn(1) /\ UNCHANGED <<worker_vars, fn_vars>>

\* One request on any route of either router, with any header, against any
\* configured secret.
InitAuth == WorkerInit /\ HttpInit(ConfiguredTokens) /\ FnIdle
NextAuth == AuthReceive \/ AuthAuthenticate \/ AuthHandlerEnter \/ AuthEngineReturn
SpecAuth == InitAuth /\ [][NextAuth]_vars

\* The request is past the Auth Gate.
Decided(r) == req[r].pc \in {"handler", "in_engine", "done"}
\* The handler body of the request was reached.
ReachedHandler(r) ==
    \/ req[r].pc \in {"handler", "in_engine"}
    \/ req[r].pc = "done" /\ req[r].status \notin {401, 403}
RejectedWith(r, st) == req[r].pc = "done" /\ req[r].status = st
EngineCallsOf(r) == {k \in 1..Len(engine_calls) : engine_calls[k].req = r}
\* The text of the header after "Bearer ".
Credential(h) == SubSeq(h, Len(BearerPrefix) + 1, Len(h))
\* The header is 'Bearer <token>' with a non-empty token.
WellFormed(h) == h # None /\ StartsWith(h, BearerPrefix) /\ Credential(h) # <<>>

\* C7 as claimed: a missing or malformed header (an empty token included) is
\* answered 401, a well-formed header whose token differs from the secret is
\* answered 403, and a rejected request runs no handler and no engine call.
C7_RejectsWith401Or403 ==
    \A r \in 1..MaxReq : Decided(r) =>
        LET h == req[r].authorization IN
        /\ ~WellFormed(h) => RejectedWith(r, 401)
        /\ (WellFormed(h) /\ Credential(h) # api_token) => RejectedWith(r, 403)
        /\ (RejectedWith(r, 401) \/ RejectedWith(r, 403)) => EngineCallsOf(r) = {}

\* C8 as claimed: the handler is reached exactly when the header is "Bearer "
\* followed by the configured secret; with API_TOKEN unset it never is.
C8_HandlerIffExactSecret ==
    \A r \in 1..MaxReq : Decided(r) =>
        (ReachedHandler(r) <=>
            (api_token # None /\ req[r].authorization = BearerPrefix \o api_token))

----------------------------------------------------------------------------
\* ======================= POST /document alone ===========================

DocLengths == {0, 1, DefaultLimite - 1, DefaultLimite, DefaultLimite + 1,
               2 * DefaultLimite, 12000}
DocPayloads ==
    [route \in {"POST /document"} |->
        [name : {<<"d">>, <<"n", "1">>}, group_id : {<<"g", "1">>, <<"g", "2">>},
         content : {Content(len) : len \in DocLengths},
         source_description : {"Document ingestion", "manual"},
         reference_time : Timestamps]]

DocReceive ==
    Receive(1, {"POST /document"}, {ValidHeader}, DocPayloads)
        /\ UNCHANGED <<worker_vars, fn_vars>>
DocAuthenticate == Authenticate(1) /\ UNCHANGED <<worker_vars, fn_vars>>
DocHandlerEnter == HandlerEnter(1) /\ UNCHANGED <<worker_vars, fn_vars>>
DocEngineReturn == EngineReturn(1) /\ UNCHANGED <<worker_vars, fn_vars>>

InitDoc == WorkerInit /\ HttpInit({Secret}) /\ FnIdle
NextDoc == DocReceive \/ DocAuthenticate \/ DocHandlerEnter \/ DocEngineReturn
SpecDoc == InitDoc /\ [][NextDoc]_vars

\* ceil(len / size)
CeilDiv(len, size) == (len + size - 1) \div size
Min(a, b) == IF a < b THEN a ELSE b

\* The k-th (1-based) episode a document request is to submit, the separator
\* of its name given.
ExpectedPart(p, k, sep) ==
    AddEpisode(p.name \o sep \o Decimal(k),
               SubSeq(p.content, (k - 1) * DefaultLimite + 1,
                      Min(k * DefaultLimite, Len(p.content))),
               "text", p.source_description, p.reference_time, p.group_id)

\* The engine calls of request r so far are, in order, the first parts of its
\* document, and once its success Result is returned they are all of them
\* and the Result reports their number.
DocumentSubmitsParts(r, sep) ==
    LET p == req[r].payload
        n == CeilDiv(Len(p.content), DefaultLimite)
        mine == SelectSeq(engine_calls, LAMBDA c : c.req = r)
    IN  /\ Len(mine) <= n
        /\ \A k \in 1..Len(mine) : mine[k].call = ExpectedPart(p, k, sep)
        /\ (req[r].pc = "done" /\ req[r].status = 201) =>
              /\ Len(mine) = n
              /\ req[r].message[1] = Decimal(n)
              /\ Len(p.content) = 12000 => req[r].message[1] = <<"3">>
              /\ Len(p.content) = 0 => req[r].message[1] = <<"0">>

\* C10 as claimed: the i-th episode is named '<base name> - Part <i>'.
C10_PartsNamedPart ==
    \A r \in 1..MaxReq :
        (req[r].route = "POST /document" /\ Decided(r)) =>
            DocumentSubmitsParts(r, <<" ", "-", " ", "P", "a", "r", "t", " ">>)

\* C10 amended: POST /document submits exactly one text-typed episode per
\* chunk, in chunk order, the i-th (1-based) named '<base name> - Parte <i>'
\* with the request's group id, source description and reference time, and
\* the success Result reports the number of chunks (3 for 12,000 characters,
\* 0 and no episode for empty content).
C10_PartsNamedParte ==
    \A r \in 1..MaxReq :
        (req[r].route = "POST /document" /\ Decided(r)) =>
            DocumentSubmitsParts(r, <<" ", "-", " ", "P", "a", "r", "t", "e", " ">>)

\* Witness of C10: a 12,000-character document was answered with its success
\* Result after three episodes were submitted.
C10_Witness ==
    /\ req[1].route = "POST /document"
    /\ req[1].pc = "done" /\ req[1].status = 201
    /\ Len(req[1].payload.content) = 12000
    /\ Len(engine_calls) = 3

----------------------------------------------------------------------------
\* ======================= dividir_em_partes alone ========================

InitChunk ==
    /\ WorkerInit /\ HttpIdle
    /\ fn_in \in [texto : StringsUpTo({"a", "b"}, MaxLen), limite : 1..MaxLimite]
    /\ fn_out = <<>>
ApplyChunk ==
    /\ fn_out = <<>>
    /\ fn_out' = <<dividir_em_partes(fn_in.texto, fn_in.limite)>>
    /\ UNCHANGED <<fn_in, worker_vars, http_vars>>
SpecChunk == InitChunk /\ [][ApplyChunk]_vars

RECURSIVE Concat(_)
Concat(parts) == IF parts = <<>> THEN <<>> ELSE Head(parts) \o Concat(Tail(parts))

\* C9: for content of length L and chunk size C > 0 the result has ceil(L/C)
\* chunks, each non-empty and of length at most C, their concatenation in
\* order is the content, and empty content yields no chunk.
C9_ChunkingPartitions ==
    fn_out # <<>> =>
        LET partes == fn_out[1]
            L == Len(fn_in.texto)
            C == fn_in.limite
        IN  /\ Len(partes) = CeilDiv(L, C)
            /\ \A k \in 1..Len(partes) : Len(partes[k]) >= 1 /\ Len(partes[k]) <= C
            /\ Concat(partes) = fn_in.texto
            /\ L = 0 => partes = <<>>

\* Witness of C9: a text was cut into several chunks, the last one shorter.
C9_Witness ==
    /\ fn_out # <<>>
    /\ Len(fn_out[1]) >= 2
    /\ Len(fn_out[1][Len(fn_out[1])]) < fn_in.limite

----------------------------------------------------------------------------
\* ======================= conversation flattening alone ==================

\* Message (dto/common.py): content is any str, a newline included; role is
\* required but may be None; role_type is one of three literals.
RoleTypes == {<<"u", "s", "e", "r">>, <<"a", "s", "s", "i", "s", "t", "a", "n", "t">>, <<"s", "y", "s", "t", "e", "m">>}
Messages ==
    [content : {<<>>, <<"h", "i">>, <<"a", "\n", "b">>},
     role_type : RoleTypes,
     role : {None, <<"b", "o", "b">>},
     timestamp : Timestamps]

RECURSIVE SeqsUpTo(_, _)
SeqsUpTo(S, n) ==
    IF n = 0 THEN {<<>>}
    ELSE LET shorter == SeqsUpTo(S, n - 1)
         IN  shorter \cup {Append(w, x) : w \in shorter, x \in S}

InitFlatten ==
    /\ WorkerInit /\ HttpIdle
    /\ fn_in \in [name : {<<"n", "1">>}, group_id : {<<"g", "1">>},
                  messages : SeqsUpTo(Messages, MaxMsgs),
                  source_description : {"Conversation"}, reference_time : {1}]
    /\ fn_out = <<>>
ApplyFlatten ==
    /\ fn_out = <<>>
    /\ fn_out' = <<add_conversation(fn_in)>>
    /\ UNCHANGED <<fn_in, worker_vars, http_vars>>
SpecFlatten == InitFlatten /\ [][ApplyFlatten]_vars

\* The lines of a text: what its newlines separate; the empty text has none.
Lines(text) == IF text = <<>> THEN <<>> ELSE Split(text, "\n")

\* The line the claim gives for a message (an absent role written as None).
ClaimedLine(m) ==
    (IF m.role = None THEN <<"N", "o", "n", "e">> ELSE m.role)
        \o <<"(">> \o m.role_type \o <<")", ":", " ">> \o m.content
        \o <<" ", "(", "T", "i", "m", "e", "s", "t", "a", "m", "p", ":", " ">> \o isoformat(m.timestamp) \o <<")">>

\* C11 as claimed: the flattened text has exactly one line per message, in
\* input order, the i-th being the rendering of the i-th message, and it is
\* handed to the engine as the body of a single message-typed episode.
C11_OneLinePerMessage ==
    fn_out # <<>> =>
        LET calls == fn_out[1]
            lines == Lines(calls[1].args.episode_body)
        IN  /\ Len(calls) = 1
            /\ calls[1].op = "add_episode"
            /\ calls[1].args.source = "message"
            /\ Len(lines) = Len(fn_in.messages)
            /\ \A k \in 1..Len(lines) : lines[k] = ClaimedLine(fn_in.messages[k])

----------------------------------------------------------------------------
\* ======================= request validation alone =======================

\* Bodies of the episode routes: group_id and name missing, empty or given.
EpisodeBodies(route) ==
    {[base EXCEPT !.group_id = g, !.name = n] :
        base \in ServicePayloads[route],
        g \in {None, <<>>, <<"g", "1">>}, n \in {None, <<>>, <<"n", "1">>}}

\* Bodies of the search routes: query missing or given, max_facts negative,
\* zero or positive, recipe any configured name, an unknown name or empty.
SearchBodies(route) ==
    [query : {None, <<"q">>}, group_ids : {None}, max_facts : {-1, 0, 1, 10},
     center_node_uuid : {<<"u">>},
     recipe : IF route \in RecipeRoutes
              THEN AnyConfiguredRecipe(route) \cup {"NODE_HYBRID_SEARCH_RRF", ""}
              ELSE {""}]

ValidatePayloads ==
    [route \in EpisodeRoutes \cup SearchRoutes |->
        IF route \in EpisodeRoutes THEN EpisodeBodies(route) ELSE SearchBodies(route)]

ValidateReceive ==
    Receive(1, EpisodeRoutes \cup SearchRoutes, {ValidHeader}, ValidatePayloads)
        /\ UNCHANGED <<worker_vars, fn_vars>>
ValidateAuthenticate == Authenticate(1) /\ UNCHANGED <<worker_vars, fn_vars>>
ValidateHandlerEnter == HandlerEnter(1) /\ UNCHANGED <<worker_vars, fn_vars>>
ValidateEngineReturn == EngineReturn(1) /\ UNCHANGED <<worker_vars, fn_vars>>

\* One authenticated request on an episode or search route, with any body.
InitValidate == WorkerInit /\ HttpInit({Secret}) /\ FnIdle
NextValidate ==
    ValidateReceive \/ ValidateAuthenticate \/ ValidateHandlerEnter \/ ValidateEngineReturn
SpecValidate == InitValidate /\ [][NextValidate]_vars

\* The recipe names the spec enumerates for each advanced-search variant.
EdgeOnlyRecipes ==
    {"EDGE_HYBRID_SEARCH_RRF", "EDGE_HYBRID_SEARCH_MMR", "EDGE_HYBRID_SEARCH_NODE_DISTANCE",
     "EDGE_HYBRID_SEARCH_EPISODE_MENTIONS", "EDGE_HYBRID_SEARCH_CROSS_ENCODER"}
CombinedRecipes ==
    {"COMBINED_HYBRID_SEARCH_RRF", "COMBINED_HYBRID_SEARCH_MMR",
     "COMBINED_HYBRID_SEARCH_CROSS_ENCODER"}
RecipeOutsideVariant(r) ==
    \/ /\ req[r].route = "POST /retrieve/search/advanced"
       /\ req[r].payload.recipe \notin EdgeOnlyRecipes
    \/ /\ req[r].route = "POST /retrieve/search/advanced-v2"
       /\ req[r].payload.recipe \notin CombinedRecipes

\* C12: an advanced-search request whose recipe is outside its variant's
\* set is rejected with no engine call, and every engine call of an advanced
\* search carries the configuration of the recipe the request named.
C12_UnknownRecipeRejected ==
    \A r \in 1..MaxReq : (req[r].route \in RecipeRoutes /\ Decided(r)) =>
        /\ RecipeOutsideVariant(r) =>
              /\ req[r].pc = "done" /\ req[r].status \in {401, 403, 422}
              /\ EngineCallsOf(r) = {}
        /\ \A k \in EngineCallsOf(r) :
              engine_calls[k].call.args.config.recipe = req[r].payload.recipe

\* Witness of C12: an edge-only recipe sent to advanced-v2 was answered 422.
C12_Witness ==
    /\ req[1].route = "POST /retrieve/search/advanced-v2"
    /\ req[1].payload.recipe = "EDGE_HYBRID_SEARCH_RRF"
    /\ req[1].payload.query # None
    /\ RejectedWith(1, 422)
    /\ engine_calls = <<>>

\* The request violates an invariant the data model states.
ViolatesStatedInvariant(r) ==
    \/ /\ req[r].route \in EpisodeRoutes
       /\ req[r].payload.group_id = <<>> \/ req[r].payload.name = <<>>
    \/ /\ req[r].route \in SearchRoutes
       /\ req[r].payload.max_facts <= 0

\* C13 as claimed: an episode request with an empty group id or name, or a
\* search request whose max result count is not positive, is rejected as a
\* validation error before any engine call.
C13_InvariantViolationsRejected ==
    \A r \in 1..MaxReq : (Decided(r) /\ ViolatesStatedInvariant(r)) =>
        /\ RejectedWith(r, 422)
        /\ EngineCallsOf(r) = {}

----------------------------------------------------------------------------
\* ======================= POST /document under engine failure ============

\* C14: POST /document hands its chunks to the engine one after another in
\* index order; when add_episode fails on chunk k the handler stops there:
\* chunks 1..k-1 stay ingested, chunks k+1.. are never submitted and no
\* success Result is returned.
C14_DocumentStopsAtFailedChunk ==
    \A r \in 1..MaxReq : (req[r].route = "POST /document" /\ Decided(r)) =>
        LET p == req[r].payload
            n == CeilDiv(Len(p.content), DefaultLimite)
            mine == SelectSeq(engine_calls, LAMBDA c : c.req = r)
            kept == SelectSeq(ingested, LAMBDA c : c.req = r)
        IN  /\ \A k \in 1..Len(mine) :
                  mine[k].call.args.episode_body =
                      SubSeq(p.content, (k - 1) * DefaultLimite + 1,
                             Min(k * DefaultLimite, Len(p.content)))
            /\ Len(kept) <= Len(mine)
            /\ \A k \in 1..Len(kept) : kept[k] = mine[k]
            /\ req[r].pc = "in_engine" => Len(kept) = Len(mine) - 1
            /\ req[r].status = 500 =>
                  /\ req[r].pc = "done"
                  /\ req[r].message = <<>>
                  /\ Len(mine) = req[r].i
                  /\ Len(kept) = Len(mine) - 1
            /\ (req[r].pc = "done" /\ req[r].status = 201) =>
                  Len(kept) = n /\ Len(mine) = n

\* Witness of C14: add_episode failed on the second of three chunks; the
\* first chunk is ingested, the third was never submitted.
C14_Witness ==
    /\ req[1].route = "POST /document"
    /\ Len(req[1].payload.content) = 12000
    /\ req[1].pc = "done" /\ req[1].status = 500
    /\ Len(engine_calls) = 2
    /\ Len(ingested) = 1

====
